---- MODULE Spec2Model ----
(***************************************************************************)
(* A model of src/solar_date.rs: the SolarDate value type, its             *)
(* constructors (from_ymd, from_solar_year_month_day, from_naive_date,     *)
(* from_date, now, from_str), its renderers (to_chinese_string, to_string) *)
(* and its accessors.                                                      *)
(*                                                                         *)
(* A Rust &str is modelled as the sequence of its UTF-8 bytes (integers in *)
(* 0..255).  find returns a byte index, a slice s[a..b] panics unless a    *)
(* and b are char boundaries inside the text, exactly as in Rust.          *)
(***************************************************************************)
EXTENDS Integers, Sequences, FiniteSets

\* pc:      the caller's position: "ready", "built", "read", "chinese", "numeric",
\*          "exported" or "reparsed"
\* ctor:    the constructor that ran first
\* op:      the operation that ran last
\* arg:     the input of the constructor that ran first
\* res:     the Result the last constructor returned
\* held:    the SolarDate the caller holds (NoDate when it holds none)
\* text:    the text the last renderer returned
\* ext:     what the last projection returned (accessors, to_naive_date, to_date_utc)
\* dayUnit: whether the Day primitive's display string ends with the day marker
VARIABLES pc, ctor, op, arg, res, held, text, ext, dayUnit

vars == <<pc, ctor, op, arg, res, held, text, ext, dayUnit>>

(***************************************************************************)
(* Bounds of the model.                                                    *)
(***************************************************************************)
\* longest text of the exhaustively enumerated from_str inputs, in characters
MaxLen == 4
\* number of consecutive years after 1896 added to the sampled years
YearWindow == 5

(***************************************************************************)
(* Program constants.                                                      *)
(***************************************************************************)
\* u16::max_value()
U16_MAX == 65535
\* the width the code assumes for a unit marker: the literal 3
MARKER_WIDTH == 3

None == -1

(***************************************************************************)
(* Characters, as UTF-8 byte sequences.                                    *)
(***************************************************************************)
CH_YEAR  == <<229, 185, 180>>   \* U+5E74, the year marker
CH_MONTH == <<230, 156, 136>>   \* U+6708, the month marker
CH_DAY   == <<230, 151, 165>>   \* U+65E5, the day marker
CH_WIDE  == <<227, 128, 128>>   \* U+3000, the full-width space
CH_SPACE == <<32>>              \* U+0020
CH_ONE   == <<49>>              \* "1"
CH_E     == <<195, 169>>        \* U+00E9, a two-byte character
CH_EMOJI == <<240, 159, 152, 128>> \* U+1F600, a four-byte character
CH_DASH  == <<45>>              \* "-"

\* the Chinese digits U+3007, U+4E00, U+4E8C, ... for 0..9, and U+5341 for 10
ChineseDigit(n) ==
    CASE n = 0 -> <<227, 128, 135>>
      [] n = 1 -> <<228, 184, 128>>
      [] n = 2 -> <<228, 186, 140>>
      [] n = 3 -> <<228, 184, 137>>
      [] n = 4 -> <<229, 155, 155>>
      [] n = 5 -> <<228, 186, 148>>
      [] n = 6 -> <<229, 133, 173>>
      [] n = 7 -> <<228, 184, 131>>
      [] n = 8 -> <<229, 133, 171>>
      [] n = 9 -> <<228, 185, 157>>
      [] n = 10 -> <<229, 141, 129>>

(***************************************************************************)
(* str primitives of the Rust standard library, on byte sequences.         *)
(***************************************************************************)
\* str::is_char_boundary: index 0, the length, or a byte that is no
\* UTF-8 continuation byte (10xxxxxx)
is_char_boundary(s, i) ==
    \/ i = 0
    \/ i = Len(s)
    \/ /\ 0 < i
       /\ i < Len(s)
       /\ ~(s[i + 1] \in 128..191)

\* whether s[from..to] is a slice Rust evaluates without a panic
CanSlice(s, from, to) ==
    /\ 0 <= from
    /\ from <= to
    /\ to <= Len(s)
    /\ is_char_boundary(s, from)
    /\ is_char_boundary(s, to)

\* s[from..to], with 0-based byte indices
Slice(s, from, to) == SubSeq(s, from + 1, to)

starts_with(s, pat) ==
    /\ Len(pat) <= Len(s)
    /\ SubSeq(s, 1, Len(pat)) = pat

ends_with(s, pat) ==
    /\ Len(pat) <= Len(s)
    /\ SubSeq(s, Len(s) - Len(pat) + 1, Len(s)) = pat

\* str::find: the byte index of the first occurrence of pat, or None
find(s, pat) ==
    LET hits == {i \in 0..(Len(s) - Len(pat)) :
                    SubSeq(s, i + 1, i + Len(pat)) = pat}
    IN IF hits = {} THEN None
       ELSE CHOOSE i \in hits : \A j \in hits : i <= j

\* the White_Space characters that occur in the modelled texts
WhiteSpace == {CH_SPACE, CH_WIDE}

RECURSIVE trim_start(_)
trim_start(s) ==
    IF \E w \in WhiteSpace : starts_with(s, w)
    THEN LET w == CHOOSE w \in WhiteSpace : starts_with(s, w)
         IN trim_start(SubSeq(s, Len(w) + 1, Len(s)))
    ELSE s

RECURSIVE trim_end(_)
trim_end(s) ==
    IF \E w \in WhiteSpace : ends_with(s, w)
    THEN LET w == CHOOSE w \in WhiteSpace : ends_with(s, w)
         IN trim_end(SubSeq(s, 1, Len(s) - Len(w)))
    ELSE s

\* str::trim
trim(s) == trim_end(trim_start(s))

(***************************************************************************)
(* Decimal and Chinese numerals.                                           *)
(***************************************************************************)
IsAsciiDigits(s) == Len(s) > 0 /\ \A i \in 1..Len(s) : s[i] \in 48..57

\* the value of a text of ASCII digits, saturating just above U16_MAX
RECURSIVE DecimalValue(_)
DecimalValue(s) ==
    IF Len(s) = 0 THEN 0
    ELSE LET hi == DecimalValue(SubSeq(s, 1, Len(s) - 1))
             v  == hi * 10 + (s[Len(s)] - 48)
         IN IF v > U16_MAX THEN U16_MAX + 1 ELSE v

\* the decimal digits of n as ASCII bytes
RECURSIVE DecimalDigits(_)
DecimalDigits(n) ==
    IF n < 10 THEN <<48 + n>>
    ELSE DecimalDigits(n \div 10) \o <<48 + (n % 10)>>

\* the decimal digits of n, each written as a Chinese digit
RECURSIVE ChineseDigits(_)
ChineseDigits(n) ==
    IF n < 10 THEN ChineseDigit(n)
    ELSE ChineseDigits(n \div 10) \o ChineseDigit(n % 10)

IsChineseDigits(s) ==
    /\ Len(s) > 0
    /\ Len(s) % 3 = 0
    /\ \A k \in 0..((Len(s) \div 3) - 1) :
          \E n \in 0..9 : SubSeq(s, 3 * k + 1, 3 * k + 3) = ChineseDigit(n)

RECURSIVE ChineseDigitsValue(_)
ChineseDigitsValue(s) ==
    IF Len(s) = 0 THEN 0
    ELSE LET hi   == ChineseDigitsValue(SubSeq(s, 1, Len(s) - 3))
             last == SubSeq(s, Len(s) - 2, Len(s))
             d    == CHOOSE n \in 0..9 : ChineseDigit(n) = last
             v    == hi * 10 + d
         IN IF v > U16_MAX THEN U16_MAX + 1 ELSE v

\* the Chinese numeral of a month or a day number, 1..31
ChineseNumber(n) ==
    IF n <= 10 THEN ChineseDigit(n)
    ELSE IF n < 20 THEN ChineseDigit(10) \o ChineseDigit(n - 10)
    ELSE IF n % 10 = 0 THEN ChineseDigit(n \div 10) \o ChineseDigit(10)
    ELSE ChineseDigit(n \div 10) \o ChineseDigit(10) \o ChineseDigit(n % 10)

(***************************************************************************)
(* The Year, Month and Day primitives and days_in_a_solar_month: external  *)
(* collaborators of solar_date.rs, modelled from their contract.           *)
(***************************************************************************)
SolarYear_from_u16(year) == year

SolarYear_to_u16(solar_year) == solar_year

SolarMonth_from_u8(month) == IF month \in 1..12 THEN month ELSE None

SolarMonth_to_u8(solar_month) == solar_month

SolarDay_from_u8(day) == IF day \in 1..31 THEN day ELSE None

SolarDay_to_u8(solar_day) == solar_day

\* the year's textual parser: Arabic or Chinese positional digits
SolarYear_from_str(s) ==
    IF IsAsciiDigits(s)
    THEN (IF DecimalValue(s) <= U16_MAX THEN DecimalValue(s) ELSE None)
    ELSE IF IsChineseDigits(s)
    THEN (IF ChineseDigitsValue(s) <= U16_MAX THEN ChineseDigitsValue(s) ELSE None)
    ELSE None

\* the year's Chinese-numeral writer
SolarYear_write_to_chinese_string(solar_year) == ChineseDigits(solar_year)

\* the month's display string embeds the month marker
SolarMonth_to_str(solar_month) == ChineseNumber(solar_month) \o CH_MONTH

\* the month's textual parser: a Chinese or Arabic numeral of 1..12, with or
\* without the month marker
SolarMonth_from_str(s) ==
    LET body == IF ends_with(s, CH_MONTH) THEN SubSeq(s, 1, Len(s) - 3) ELSE s
        hits == {n \in 1..12 :
                    \/ body = ChineseNumber(n)
                    \/ IsAsciiDigits(body) /\ DecimalValue(body) = n}
    IN IF hits = {} THEN None ELSE CHOOSE n \in hits : TRUE

\* the day's display string; whether it embeds the day marker is a property
\* of the Day primitive that solar_date.rs does not fix (dayUnit)
SolarDay_to_str(solar_day) ==
    IF dayUnit THEN ChineseNumber(solar_day) \o CH_DAY
    ELSE ChineseNumber(solar_day)

\* the day's textual parser: a Chinese or Arabic numeral of 1..31, with or
\* without the day marker
SolarDay_from_str(s) ==
    LET body == IF ends_with(s, CH_DAY) THEN SubSeq(s, 1, Len(s) - 3) ELSE s
        hits == {n \in 1..31 :
                    \/ body = ChineseNumber(n)
                    \/ IsAsciiDigits(body) /\ DecimalValue(body) = n}
    IN IF hits = {} THEN None ELSE CHOOSE n \in hits : TRUE

is_leap(year) == year % 4 = 0 /\ (year % 100 # 0 \/ year % 400 = 0)

days_in_a_solar_month(solar_year, solar_month) ==
    IF solar_month = 2 THEN (IF is_leap(solar_year) THEN 29 ELSE 28)
    ELSE IF solar_month \in {4, 6, 9, 11} THEN 30
    ELSE 31

(***************************************************************************)
(* The chrono date types, as far as solar_date.rs reads them.              *)
(***************************************************************************)
\* a NaiveDate is a calendrically valid proleptic Gregorian date
IsNaiveDate(nd) ==
    /\ nd.month \in 1..12
    /\ nd.day >= 1
    /\ nd.day <= (IF nd.month = 2 THEN (IF is_leap(nd.year) THEN 29 ELSE 28)
                  ELSE IF nd.month \in {4, 6, 9, 11} THEN 30 ELSE 31)

\* Date<Tz>::naive_utc: the date in UTC that a Date<Tz> stores
naive_utc(date) == date.utc

(***************************************************************************)
(* SolarDate and Result<SolarDate, SolarDateParseError>.                   *)
(***************************************************************************)
SolarDate(solar_year, solar_month, solar_day) ==
    [solar_year |-> solar_year, solar_month |-> solar_month, solar_day |-> solar_day]

NoDate == SolarDate(None, None, None)

SolarDateParseError == {"OutOfRange", "IncorrectYear", "IncorrectMonth", "IncorrectDay"}

Ok(d) == [tag |-> "Ok", err |-> "", date |-> d]

Err(e) == [tag |-> "Err", err |-> e, date |-> NoDate]

\* a panic of the thread that runs the operation
Panic == [tag |-> "Panic", err |-> "", date |-> NoDate]

NoResult == [tag |-> "None", err |-> "", date |-> NoDate]

(***************************************************************************)
(* Constructors.                                                           *)
(***************************************************************************)
\* from_naive_date without the upper bound on the year: year as u16 wraps
from_naive_date_wrapping(naive_date) ==
    LET year == naive_date.year
    IN IF year < 0
       THEN Err("OutOfRange")
       ELSE Ok(SolarDate(year % 65536, naive_date.month % 256, naive_date.day % 256))

from_naive_date(naive_date) ==
    LET year == naive_date.year
    IN IF year < 0 \/ year > U16_MAX
       THEN Err("OutOfRange")
       ELSE LET solar_year  == SolarYear_from_u16(year % 65536)
                solar_month == SolarMonth_from_u8(naive_date.month % 256)
                solar_day   == SolarDay_from_u8(naive_date.day % 256)
            IN IF solar_month = None \/ solar_day = None
               THEN Panic
               ELSE Ok(SolarDate(solar_year, solar_month, solar_day))

from_date(date) == from_naive_date(naive_utc(date))

\* from_solar_year_month_day without the comparison with the day count
from_solar_year_month_day_unchecked(solar_year, solar_month, solar_day) ==
    Ok(SolarDate(solar_year, solar_month, solar_day))

\* from_solar_year_month_day rejecting the last day of the month
from_solar_year_month_day_off_by_one(solar_year, solar_month, solar_day) ==
    IF SolarDay_to_u8(solar_day) >= days_in_a_solar_month(solar_year, solar_month)
    THEN Err("IncorrectDay")
    ELSE Ok(SolarDate(solar_year, solar_month, solar_day))

from_solar_year_month_day(solar_year, solar_month, solar_day) ==
    LET days == days_in_a_solar_month(solar_year, solar_month)
        day  == SolarDay_to_u8(solar_day)
    IN IF day > days
       THEN Err("IncorrectDay")
       ELSE Ok(SolarDate(solar_year, solar_month, solar_day))

\* from_ymd reporting a day outside the Day primitive's range as a day error
from_ymd_day_error(year, month, day) ==
    IF SolarMonth_from_u8(month) = None THEN Err("IncorrectMonth")
    ELSE IF SolarDay_from_u8(day) = None THEN Err("IncorrectDay")
    ELSE from_solar_year_month_day(SolarYear_from_u16(year), month, day)

from_ymd(year, month, day) ==
    LET solar_year  == SolarYear_from_u16(year)
        solar_month == SolarMonth_from_u8(month)
        solar_day   == SolarDay_from_u8(day)
    IN IF solar_month = None THEN Err("IncorrectMonth")
       ELSE IF solar_day = None THEN Err("IncorrectMonth")
       ELSE from_solar_year_month_day(solar_year, solar_month, solar_day)

\* the lookup of a unit marker: the named character first, the full-width
\* space as the fallback
\* the lookup with the full-width space tried before the named character
FindMarker_space_first(s, marker) ==
    IF find(s, CH_WIDE) # None THEN find(s, CH_WIDE)
    ELSE find(s, marker)

FindMarker(s, marker) ==
    IF find(s, marker) # None THEN find(s, marker)
    ELSE find(s, CH_WIDE)

\* the byte index just after a marker found at index
\* a marker taken to be one byte wide
AfterMarker_one_byte(index) == index + 1

AfterMarker(index) == index + MARKER_WIDTH

\* the end of day_str once the day marker is stripped
\* the day marker taken to be one byte wide
BeforeDayMarker_one_byte(len) == len - 1

BeforeDayMarker(len) == len - MARKER_WIDTH

from_str(s) ==
    LET year_index == FindMarker(s, CH_YEAR)
    IN IF year_index = None THEN Err("IncorrectYear")
       ELSE IF ~CanSlice(s, 0, year_index) THEN Panic
       ELSE
       LET year_str   == trim(Slice(s, 0, year_index))
           solar_year == SolarYear_from_str(year_str)
       IN IF solar_year = None THEN Err("IncorrectYear")
          ELSE IF ~CanSlice(s, AfterMarker(year_index), Len(s)) THEN Panic
          ELSE
          LET s2          == Slice(s, AfterMarker(year_index), Len(s))
              month_index == FindMarker(s2, CH_MONTH)
          IN IF month_index = None THEN Err("IncorrectMonth")
             ELSE IF ~CanSlice(s2, 0, AfterMarker(month_index)) THEN Panic
             ELSE
             LET month_str   == trim(Slice(s2, 0, AfterMarker(month_index)))
                 solar_month == SolarMonth_from_str(month_str)
             IN IF solar_month = None THEN Err("IncorrectMonth")
                ELSE IF ~CanSlice(s2, AfterMarker(month_index), Len(s2)) THEN Panic
                ELSE
                LET day_full == trim(Slice(s2, AfterMarker(month_index), Len(s2)))
                    strip    == ends_with(day_full, CH_DAY)
                IN IF strip /\ ~CanSlice(day_full, 0, BeforeDayMarker(Len(day_full)))
                   THEN Panic
                   ELSE
                   LET day_str   == IF strip
                                    THEN Slice(day_full, 0, BeforeDayMarker(Len(day_full)))
                                    ELSE day_full
                       solar_day == SolarDay_from_str(day_str)
                   IN IF solar_day = None THEN Err("IncorrectDay")
                      ELSE from_solar_year_month_day(solar_year, solar_month, solar_day)

(***************************************************************************)
(* Renderers, projections and accessors.                                   *)
(***************************************************************************)
to_chinese_string(self) ==
    SolarYear_write_to_chinese_string(self.solar_year)
        \o CH_YEAR
        \o SolarMonth_to_str(self.solar_month)
        \o SolarDay_to_str(self.solar_day)
        \o CH_DAY

\* format!("{:0width$}", n): at least width digits, padded with zeros
\* the digits of n without the padding
ZeroPadded_unpadded(n, width) == DecimalDigits(n)

ZeroPadded(n, width) ==
    LET digits == DecimalDigits(n)
    IN IF Len(digits) >= width THEN digits
       ELSE [i \in 1..(width - Len(digits)) |-> 48] \o digits

\* to_string with the day written before the month
to_string_day_first(self) ==
    ZeroPadded(SolarYear_to_u16(self.solar_year), 4)
        \o CH_DASH
        \o ZeroPadded(SolarDay_to_u8(self.solar_day), 2)
        \o CH_DASH
        \o ZeroPadded(SolarMonth_to_u8(self.solar_month), 2)

to_string(self) ==
    ZeroPadded(SolarYear_to_u16(self.solar_year), 4)
        \o CH_DASH
        \o ZeroPadded(SolarMonth_to_u8(self.solar_month), 2)
        \o CH_DASH
        \o ZeroPadded(SolarDay_to_u8(self.solar_day), 2)

\* NaiveDate::from_ymd panics on a date that is not in the calendar
to_naive_date(self) ==
    LET nd == [year  |-> SolarYear_to_u16(self.solar_year),
               month |-> SolarMonth_to_u8(self.solar_month),
               day   |-> SolarDay_to_u8(self.solar_day)]
    IN IF IsNaiveDate(nd) THEN [tag |-> "Ok", date |-> nd]
       ELSE [tag |-> "Panic", date |-> nd]

to_date_utc(self) ==
    LET naive_date == to_naive_date(self)
    IN [tag |-> naive_date.tag, date |-> [utc |-> naive_date.date, tz |-> "Utc"]]

get_solar_year(self) == self.solar_year

get_solar_month(self) == self.solar_month

get_solar_day(self) == self.solar_day

(***************************************************************************)
(* The inputs the operations are applied to.                               *)
(***************************************************************************)
Years == {0, 4, 5, 100, 400, 2000, 2001, 2021, 9999, 10000, 12345, U16_MAX}
            \cup 1896..(1896 + YearWindow)

\* u8 values for the month and the day of from_ymd
MonthInputs == 0..13 \cup {255}

DayInputs == 0..40 \cup {127, 128, 255}

\* years of the chrono dates, inside and outside 0..U16_MAX
NaiveYears == {-262144, -400, -1, 0, 1, 1900, 2000, 2021, U16_MAX, U16_MAX + 1, 262143}

NaiveDates ==
    {nd \in [year : NaiveYears, month : 1..12, day : 1..31] : IsNaiveDate(nd)}

\* Date<Tz> values: a date in UTC and a time zone
ZonedDates ==
    {[utc |-> nd, tz |-> tz] :
        nd \in {d \in NaiveDates : d.month \in {2, 12} /\ d.day >= 28},
        tz \in {"Utc", "FixedOffset"}}

\* what Utc::now().date() may return
ClockDates ==
    {[utc |-> nd, tz |-> "Utc"] :
        nd \in {d \in NaiveDates : d.year \in {2021, U16_MAX, U16_MAX + 1} /\ d.day = 1}}

Alphabet ==
    {CH_ONE, ChineseDigit(1), CH_YEAR, CH_MONTH, CH_DAY, CH_WIDE, CH_SPACE, CH_E, CH_EMOJI}

\* the concatenation of a sequence of characters
RECURSIVE Concat(_)
Concat(chars) ==
    IF Len(chars) = 0 THEN <<>>
    ELSE chars[1] \o Concat(SubSeq(chars, 2, Len(chars)))

\* every text of at most MaxLen characters of Alphabet
ShortTexts ==
    {Concat(chars) : chars \in UNION {[1..n -> Alphabet] : n \in 0..MaxLen}}

YearParts ==
    {DecimalDigits(2021), ChineseDigits(2021), ChineseDigits(2000), DecimalDigits(1900),
     CH_SPACE \o DecimalDigits(5) \o CH_SPACE, DecimalDigits(U16_MAX + 1), <<>>, CH_E}

MonthParts ==
    {DecimalDigits(10), ChineseNumber(10), ChineseNumber(2), DecimalDigits(13),
     CH_SPACE \o DecimalDigits(2), <<>>}

DayParts ==
    {DecimalDigits(15), ChineseNumber(15), ChineseNumber(29), DecimalDigits(29),
     ChineseNumber(31), DecimalDigits(32), DecimalDigits(0), <<>>, CH_EMOJI}

\* texts of the shape <year><sep><month><sep><day><tail>
ShapedTexts ==
    {y \o s1 \o m \o s2 \o d \o tl :
        y \in YearParts, s1 \in {CH_YEAR, CH_WIDE, <<>>},
        m \in MonthParts, s2 \in {CH_MONTH, CH_WIDE, <<>>},
        d \in DayParts, tl \in {CH_DAY, <<>>, CH_WIDE, CH_SPACE}}

Texts == ShortTexts \cup ShapedTexts

(***************************************************************************)
(* The text a caller reads back from to_string: three '-'-separated        *)
(* decimal fields.                                                         *)
(***************************************************************************)
RECURSIVE SplitDash(_)
SplitDash(s) ==
    LET i == find(s, CH_DASH)
    IN IF i = None THEN <<s>>
       ELSE <<Slice(s, 0, i)>> \o SplitDash(Slice(s, i + 1, Len(s)))

\* from_ymd on the fields of a numeric text; NoResult when the text does not
\* hold three decimal fields that fit u16, u8 and u8
from_ymd_of_text(s) ==
    LET f == SplitDash(s)
    IN IF /\ Len(f) = 3
          /\ \A k \in 1..3 : IsAsciiDigits(f[k])
          /\ DecimalValue(f[1]) <= U16_MAX
          /\ DecimalValue(f[2]) <= 255
          /\ DecimalValue(f[3]) <= 255
       THEN from_ymd(DecimalValue(f[1]), DecimalValue(f[2]), DecimalValue(f[3]))
       ELSE NoResult

(***************************************************************************)
(* The state machine: a caller constructs a SolarDate, then reads it,      *)
(* renders it or converts it, and may parse the rendered text back.        *)
(***************************************************************************)
Init ==
    /\ pc = "ready"
    /\ ctor = "none"
    /\ op = "none"
    /\ arg = <<>>
    /\ res = NoResult
    /\ held = NoDate
    /\ text = <<>>
    /\ ext = <<>>
    /\ dayUnit \in BOOLEAN

\* a constructor returned r for the input a
Built(name, a, r) ==
    /\ pc' = "built"
    /\ ctor' = name
    /\ op' = name
    /\ arg' = a
    /\ res' = r
    /\ held' = r.date
    /\ UNCHANGED <<text, ext, dayUnit>>

FromYmd ==
    /\ pc = "ready"
    /\ \E year \in Years, month \in MonthInputs, day \in DayInputs :
          Built("from_ymd", <<year, month, day>>, from_ymd(year, month, day))

FromSolarYearMonthDay ==
    /\ pc = "ready"
    /\ \E year \in Years, month \in 1..12, day \in 1..31 :
          Built("from_solar_year_month_day", <<year, month, day>>,
                from_solar_year_month_day(SolarYear_from_u16(year), month, day))

FromNaiveDate ==
    /\ pc = "ready"
    /\ \E nd \in NaiveDates : Built("from_naive_date", nd, from_naive_date(nd))

FromDate ==
    /\ pc = "ready"
    /\ \E zd \in ZonedDates : Built("from_date", zd, from_date(zd))

Now ==
    /\ pc = "ready"
    /\ \E zd \in ClockDates : Built("now", zd, from_date(zd))

FromStr ==
    /\ pc = "ready"
    /\ \E s \in Texts : Built("from_str", s, from_str(s))

\* get_solar_year, get_solar_month and get_solar_day of the date the caller holds
Accessors ==
    /\ pc = "built"
    /\ res.tag = "Ok"
    /\ pc' = "read"
    /\ op' = "get"
    /\ ext' = <<get_solar_year(held), get_solar_month(held), get_solar_day(held)>>
    /\ UNCHANGED <<ctor, arg, res, held, text, dayUnit>>

ToChineseString ==
    /\ pc = "built"
    /\ res.tag = "Ok"
    /\ pc' = "chinese"
    /\ op' = "to_chinese_string"
    /\ text' = to_chinese_string(held)
    /\ UNCHANGED <<ctor, arg, res, held, ext, dayUnit>>

\* Display::fmt writes to_chinese_string
Fmt ==
    /\ pc = "built"
    /\ res.tag = "Ok"
    /\ pc' = "chinese"
    /\ op' = "fmt"
    /\ text' = to_chinese_string(held)
    /\ UNCHANGED <<ctor, arg, res, held, ext, dayUnit>>

ToNumericString ==
    /\ pc = "built"
    /\ res.tag = "Ok"
    /\ pc' = "numeric"
    /\ op' = "to_string"
    /\ text' = to_string(held)
    /\ UNCHANGED <<ctor, arg, res, held, ext, dayUnit>>

ToNaiveDate ==
    /\ pc = "built"
    /\ res.tag = "Ok"
    /\ pc' = "exported"
    /\ op' = "to_naive_date"
    /\ ext' = to_naive_date(held)
    /\ UNCHANGED <<ctor, arg, res, held, text, dayUnit>>

ToDateUtc ==
    /\ pc = "built"
    /\ res.tag = "Ok"
    /\ pc' = "exported"
    /\ op' = "to_date_utc"
    /\ ext' = to_date_utc(held)
    /\ UNCHANGED <<ctor, arg, res, held, text, dayUnit>>

\* from_str on the text to_chinese_string returned
ParseRendered ==
    /\ pc = "chinese"
    /\ pc' = "reparsed"
    /\ op' = "from_str"
    /\ res' = from_str(text)
    /\ UNCHANGED <<ctor, arg, held, text, ext, dayUnit>>

\* from_ymd on the fields of the text to_string returned
FromYmdRendered ==
    /\ pc = "numeric"
    /\ pc' = "reparsed"
    /\ op' = "from_ymd"
    /\ res' = from_ymd_of_text(text)
    /\ UNCHANGED <<ctor, arg, held, text, ext, dayUnit>>

Next ==
    \/ FromYmd
    \/ FromSolarYearMonthDay
    \/ FromNaiveDate
    \/ FromDate
    \/ Now
    \/ FromStr
    \/ Accessors
    \/ ToChineseString
    \/ Fmt
    \/ ToNumericString
    \/ ToNaiveDate
    \/ ToDateUtc
    \/ ParseRendered
    \/ FromYmdRendered

Spec == Init /\ [][Next]_vars

(***************************************************************************)
(* Properties.                                                             *)
(***************************************************************************)
\* the Result a constructor call left in res
Constructed(name) == pc = "built" /\ ctor = name

\* C1: every SolarDate a constructor returns as Ok (from_ymd,
\* from_solar_year_month_day, from_str, from_naive_date, from_date, now) has its
\* year in 0..65535, its month in 1..12 and its day in
\* 1..days_in_a_solar_month(year, month).
C1_ConstructedIsValid ==
    res.tag = "Ok" =>
        /\ res.date.solar_year \in 0..U16_MAX
        /\ res.date.solar_month \in 1..12
        /\ res.date.solar_day >= 1
        /\ res.date.solar_day
              <= days_in_a_solar_month(res.date.solar_year, res.date.solar_month)

\* from_naive_date returned 29 February 2000, which it built without
\* comparing the day with the day count
C1_Witness ==
    /\ Constructed("from_naive_date")
    /\ res = Ok(SolarDate(2000, 2, 29))

\* C2: from_ymd(year, month, day) with month in 1..12 and
\* day > days_in_month(year, month) fails with IncorrectDay, days above 31
\* included.
C2_DayOverflowIsDayError ==
    (/\ Constructed("from_ymd")
     /\ arg[2] \in 1..12
     /\ arg[3] > days_in_a_solar_month(arg[1], arg[2]))
        => res = Err("IncorrectDay")

\* C3: from_ymd(year, month, day) with month in 1..12 and
\* 1 <= day <= days_in_month(year, month) returns Ok, and the accessors of the
\* result return year, month and day; 29 February is accepted for 2000 and
\* rejected for 1900 and 2001.
C3_ValidTripleAccepted ==
    /\ (/\ Constructed("from_ymd")
        /\ arg[2] \in 1..12
        /\ arg[3] >= 1
        /\ arg[3] <= days_in_a_solar_month(arg[1], arg[2]))
          => res = Ok(SolarDate(arg[1], arg[2], arg[3]))
    /\ (pc = "read" /\ ctor = "from_ymd") => ext = arg
    /\ (Constructed("from_ymd") /\ arg = <<2000, 2, 29>>) => res.tag = "Ok"
    /\ (Constructed("from_ymd") /\ arg \in {<<1900, 2, 29>>, <<2001, 2, 29>>})
          => res.tag = "Err"

\* the accessors returned the inputs of from_ymd(2000, 2, 29)
C3_Witness ==
    /\ pc = "read"
    /\ ctor = "from_ymd"
    /\ arg = <<2000, 2, 29>>
    /\ ext = <<2000, 2, 29>>

\* C4: from_naive_date on a valid chrono date returns Ok, with the year, month
\* and day of that date, exactly when its year is in 0..65535; for any other
\* year it returns OutOfRange.
C4_NaiveDateRange ==
    Constructed("from_naive_date") =>
        IF arg.year \in 0..U16_MAX
        THEN res = Ok(SolarDate(arg.year, arg.month, arg.day))
        ELSE res = Err("OutOfRange")

\* from_naive_date accepted a date of the year 65535
C4_Witness ==
    /\ Constructed("from_naive_date")
    /\ arg.year = U16_MAX
    /\ res = Ok(SolarDate(U16_MAX, 12, 31))

\* C5: from_str returns Ok or one of the four SolarDateParseError variants for
\* every text; none of its slices panics.
C5_FromStrIsTotal ==
    op = "from_str" =>
        \/ res.tag = "Ok"
        \/ res.tag = "Err" /\ res.err \in SolarDateParseError

\* from_str sliced a text just after a year marker that is its last character
C5_Witness ==
    /\ Constructed("from_str")
    /\ arg = CH_ONE \o CH_YEAR
    /\ res = Err("IncorrectMonth")

\* C6: from_str(d.to_chinese_string()) returns Ok(d) for every valid
\* SolarDate d.
C6_ChineseRoundTrip ==
    (pc = "reparsed" /\ op = "from_str") => res = Ok(held)

\* the Chinese text of 15 October 2021 was parsed back to that date
C6_Witness ==
    /\ pc = "reparsed"
    /\ op = "from_str"
    /\ held = SolarDate(2021, 10, 15)
    /\ starts_with(text, ChineseDigits(2021) \o CH_YEAR \o ChineseNumber(10) \o CH_MONTH)
    /\ res = Ok(held)

\* C7: from_ymd on the three '-'-separated decimal fields of d.to_string()
\* returns Ok(d) for every valid SolarDate d.
C7_NumericRoundTrip ==
    (pc = "reparsed" /\ op = "from_ymd") => res = Ok(held)

\* the numeric text of a date of the year 12345 was read back to that date
C7_Witness ==
    /\ pc = "reparsed"
    /\ op = "from_ymd"
    /\ held = SolarDate(12345, 2, 28)
    /\ res = Ok(held)

\* the '-'-separated fields of a numeric text
NumericFields(s) == SplitDash(s)

Utf8Width(b) ==
    IF b < 128 THEN 1 ELSE IF b < 224 THEN 2 ELSE IF b < 240 THEN 3 ELSE 4

\* the characters of a well-formed text
RECURSIVE Chars(_)
Chars(s) ==
    IF Len(s) = 0 THEN <<>>
    ELSE <<SubSeq(s, 1, Utf8Width(s[1]))>>
            \o Chars(SubSeq(s, Utf8Width(s[1]) + 1, Len(s)))

\* the position of the first character of cs that is c, or None
FirstChar(cs, c) ==
    IF \E i \in 1..Len(cs) : cs[i] = c
    THEN CHOOSE i \in 1..Len(cs) : cs[i] = c /\ \A j \in 1..(i - 1) : cs[j] # c
    ELSE None

\* the position of the unit marker of a field: the named character, else the
\* full-width space, else None
MarkerPosition(cs, marker) ==
    IF FirstChar(cs, marker) # None THEN FirstChar(cs, marker)
    ELSE FirstChar(cs, CH_WIDE)

\* the text of cs without its leading and trailing white space
TrimmedText(cs) ==
    LET inner == {i \in 1..Len(cs) : ~(cs[i] \in WhiteSpace)}
    IN IF inner = {} THEN <<>>
       ELSE LET lo == CHOOSE i \in inner : \A j \in inner : i <= j
                hi == CHOOSE i \in inner : \A j \in inner : j <= i
            IN Concat(SubSeq(cs, lo, hi))

\* the day part: trimmed, and without one trailing day marker
DayText(cs) ==
    LET trimmed == TrimmedText(cs)
    IN IF ends_with(trimmed, CH_DAY)
       THEN SubSeq(trimmed, 1, Len(trimmed) - Len(CH_DAY))
       ELSE trimmed

\* the stage at which a text fails, in year, month, day order, or "Ok"
FirstFailure(s) ==
    LET cs == Chars(s)
        yp == MarkerPosition(cs, CH_YEAR)
    IN IF yp = None THEN "IncorrectYear"
       ELSE IF SolarYear_from_str(TrimmedText(SubSeq(cs, 1, yp - 1))) = None
       THEN "IncorrectYear"
       ELSE
       LET year == SolarYear_from_str(TrimmedText(SubSeq(cs, 1, yp - 1)))
           rest == SubSeq(cs, yp + 1, Len(cs))
           mp   == MarkerPosition(rest, CH_MONTH)
       IN IF mp = None THEN "IncorrectMonth"
          ELSE IF SolarMonth_from_str(TrimmedText(SubSeq(rest, 1, mp))) = None
          THEN "IncorrectMonth"
          ELSE
          LET month == SolarMonth_from_str(TrimmedText(SubSeq(rest, 1, mp)))
              day   == SolarDay_from_str(DayText(SubSeq(rest, mp + 1, Len(rest))))
          IN IF day = None THEN "IncorrectDay"
             ELSE IF day > days_in_a_solar_month(year, month) THEN "IncorrectDay"
             ELSE "Ok"

\* C10: from_str fails fast in year, month, day order: no year marker and no
\* full-width space, or an unparsable year part, gives IncorrectYear whatever
\* follows; otherwise no month marker and no full-width space in the
\* remainder, or an unparsable month part, gives IncorrectMonth whatever the
\* day part is; otherwise an unparsable day part or a day above
\* days_in_month(year, month) gives IncorrectDay; from_str never returns
\* OutOfRange.
C10_FromStrFailFast ==
    Constructed("from_str") =>
        /\ res.err # "OutOfRange"
        /\ IF FirstFailure(arg) = "Ok" THEN res.tag = "Ok"
           ELSE res = Err(FirstFailure(arg))

\* a text with a good year, no month marker and a bad day part failed with
\* IncorrectMonth
C10_Witness ==
    /\ Constructed("from_str")
    /\ arg = DecimalDigits(2021) \o CH_YEAR \o DecimalDigits(10) \o DecimalDigits(32)
    /\ res = Err("IncorrectMonth")

====
